---- MODULE Spec2Model ----
(***************************************************************************)
(* Model of opexebo.analysis: borderCoverage.py (border_coverage,          *)
(* _wall_field_rect, _wall_field_circ, _validate_wall_definition) and      *)
(* autocorrelation.py (the cropping of the full autocorrelogram).          *)
(*                                                                         *)
(* A state is one Python call seen from the caller: the function and its   *)
(* arguments (call), the arrays the caller owns (heap), the position of    *)
(* the call (pc) and what the call produced (outcome).  Each function is   *)
(* one action that runs the whole body.                                    *)
(***************************************************************************)
EXTENDS Integers, Sequences, FiniteSets

VARIABLES pc, call, heap, outcome

vars == <<pc, call, heap, outcome>>

(***************************************************************************)
(* Python values and outcomes                                              *)
(***************************************************************************)
\* A str is a sequence of one-character strings; the other values stand for
\* what a caller may pass in its place.
PyStr(s) == [type |-> "str", val |-> s]

PyNone == [type |-> "NoneType", val |-> <<>>]

PyInt == [type |-> "int", val |-> <<>>]

PyList(s) == [type |-> "list", val |-> s]

NoOutcome == [kind |-> "none", exc |-> "", why |-> "", value |-> <<>>]

Return(v) == [kind |-> "return", exc |-> "", why |-> "", value |-> v]

Raise(e, w) == [kind |-> "raise", exc |-> e, why |-> w, value |-> <<>>]

\* The caller's array after a call that worked on arr: an array that shares
\* the caller's memory has written its elements through.
write_back(fmap, arr) ==
    IF ~arr.base THEN fmap
    ELSE [fmap EXCEPT !.at =
            [q \in DOMAIN fmap.at |->
                IF \E p \in DOMAIN arr.src : arr.src[p] = q
                THEN arr.at[CHOOSE p \in DOMAIN arr.src : arr.src[p] = q]
                ELSE fmap.at[q]]]

\* str.lower() on the characters of the model's alphabet.
lower_char(c) ==
    CASE c = "T" -> "t"
      [] c = "R" -> "r"
      [] c = "B" -> "b"
      [] c = "L" -> "l"
      [] c = "X" -> "x"
      [] OTHER -> c

lower(s) == [i \in 1..Len(s) |-> lower_char(s[i])]

(***************************************************************************)
(* borderCoverage.py: _validate_wall_definition                            *)
(***************************************************************************)
\* Variant of bad_char: the characters are compared as given, not lowered.
bad_char_no_lower(s) == \E i \in 1..Len(s) : s[i] \notin {"t", "r", "b", "l"}

\* walls = walls.lower(); some char of walls has char.lower() outside
\* ["t","r","b","l"].
bad_char(s) == \E i \in 1..Len(s) : lower_char(lower(s)[i]) \notin {"t", "r", "b", "l"}

validate_wall_definition(walls) ==
    IF walls.type # "str" THEN Raise("ValueError", "not a string")
    ELSE IF Len(walls.val) > 4 THEN Raise("ValueError", "too long")
    ELSE IF Len(walls.val) = 0 THEN Raise("ValueError", "empty")
    ELSE IF bad_char(walls.val) THEN Raise("ValueError", "character")
    ELSE Return(PyNone)

(***************************************************************************)
(* autocorrelation.py: the window kept of the full autocorrelogram         *)
(***************************************************************************)
\* overlap_amount = 0.8, in tenths.
overlap_tenths == 8

\* np.round of the rational num/den (den > 0): to the nearest integer, a
\* half to the even neighbour.
np_round(num, den) ==
    LET q == num \div den
        r == num % den
    IN  IF 2 * r < den THEN q
        ELSE IF 2 * r > den THEN q + 1
        ELSE IF q % 2 = 0 THEN q ELSE q + 1

\* general.normxcorr2_general(map).shape[i] for map.shape[i] = n.
full_dim(n) == 2 * n - 1

\* Variant of new_size: an even size is kept as it is.
new_size_no_parity(n) == np_round(10 * n + overlap_tenths * n, 10)

\* new_size = np.round(n + n * overlap_amount), then made odd.
new_size(n) ==
    LET s == np_round(10 * n + overlap_tenths * n, 10)
    IN  IF s % 2 = 0 THEN s - 1 ELSE s

\* Variant of crop_offset: offset = np.round(offset/2).
crop_offset_no_plus_one(n) == np_round(full_dim(n) - new_size(n), 2)

\* offset = aCorr.shape[i] - new_size; offset = np.round(offset/2 + 1)
crop_offset(n) == np_round((full_dim(n) - new_size(n)) + 2, 2)

\* slice(d0, d1) with d0 = int(offset-1), d1 = int(aCorr.shape[i] - offset + 1)
crop_slice(n) == [d0 |-> crop_offset(n) - 1, d1 |-> full_dim(n) - crop_offset(n) + 1]

\* The indices a[slice(d0, d1)] selects on an axis of length len: a negative
\* bound counts from the end, and both bounds are clipped to the axis.
slice_bound(b, len) ==
    IF b < 0 THEN (IF b + len < 0 THEN 0 ELSE b + len)
    ELSE IF b > len THEN len ELSE b

slice_indices(sl, len) ==
    {k \in 0..(len - 1) : slice_bound(sl.d0, len) <= k /\ k < slice_bound(sl.d1, len)}

\* autocorrelation(map) for a map of the given shape: the slices and the
\* cells of the full surface that are returned on each axis.
autocorrelation(shape) ==
    Return([i \in 1..Len(shape) |->
              [new_size |-> new_size(shape[i]),
               slice |-> crop_slice(shape[i]),
               cells |-> slice_indices(crop_slice(shape[i]), full_dim(shape[i]))]])

(***************************************************************************)
(* numpy arrays                                                            *)
(***************************************************************************)
\* A float is a number or NaN.
Flt(x) == [nan |-> FALSE, x |-> x]

NaN == [nan |-> TRUE, x |-> 0]

\* One element of a masked array: its data and its mask bit.
Cell(d, m) == [d |-> d, m |-> m]

\* A 2-D array with nr rows and nc columns, indexed from 0.  src names, for
\* every element, the element of the caller's array it came from, and base
\* tells whether the array still shares its memory with the caller's array
\* (a slice, fliplr and rot90 give views; .copy() gives fresh memory).
Index(nr, nc) == (0..(nr - 1)) \X (0..(nc - 1))

Array(nr, nc, at, src, base) == [nr |-> nr, nc |-> nc, at |-> at, src |-> src, base |-> base]

\* field['field_map']: the caller's array itself.
field_map(fmap) ==
    Array(fmap.nr, fmap.nc, fmap.at, [p \in Index(fmap.nr, fmap.nc) |-> p], TRUE)

\* a[:, lo:hi] and a[lo:hi, :] with the bounds already normalised.
take_cols(a, lo, hi) ==
    LET n == IF hi > lo THEN hi - lo ELSE 0
    IN  Array(a.nr, n,
              [p \in Index(a.nr, n) |-> a.at[<<p[1], lo + p[2]>>]],
              [p \in Index(a.nr, n) |-> a.src[<<p[1], lo + p[2]>>]], a.base)

take_rows(a, lo, hi) ==
    LET n == IF hi > lo THEN hi - lo ELSE 0
    IN  Array(n, a.nc,
              [p \in Index(n, a.nc) |-> a.at[<<lo + p[1], p[2]>>]],
              [p \in Index(n, a.nc) |-> a.src[<<lo + p[1], p[2]>>]], a.base)

\* a[:, :sw], a[:, -sw:], a[:sw, :], a[-sw:, :]
first_cols(a, sw) == take_cols(a, 0, slice_bound(sw, a.nc))

last_cols(a, sw) == take_cols(a, slice_bound(0 - sw, a.nc), a.nc)

first_rows(a, sw) == take_rows(a, 0, slice_bound(sw, a.nr))

last_rows(a, sw) == take_rows(a, slice_bound(0 - sw, a.nr), a.nr)

\* a.copy()
np_copy(a) == [a EXCEPT !.base = FALSE]

\* np.fliplr(a): columns reversed.
fliplr(a) ==
    Array(a.nr, a.nc,
          [p \in Index(a.nr, a.nc) |-> a.at[<<p[1], a.nc - 1 - p[2]>>]],
          [p \in Index(a.nr, a.nc) |-> a.src[<<p[1], a.nc - 1 - p[2]>>]], a.base)

\* np.rot90(a): counterclockwise, the last column becomes the first row.
rot90(a) ==
    Array(a.nc, a.nr,
          [p \in Index(a.nc, a.nr) |-> a.at[<<p[2], a.nc - 1 - p[1]>>]],
          [p \in Index(a.nc, a.nr) |-> a.src[<<p[2], a.nc - 1 - p[1]>>]], a.base)

(***************************************************************************)
(* borderCoverage.py: _wall_field_rect                                     *)
(***************************************************************************)
\* A coverage: the quotient covered / contributing_cells, or numpy's masked
\* constant.
Coverage(num, den) == [masked |-> FALSE, num |-> num, den |-> den]

MaskedCoverage == [masked |-> TRUE, num |-> 0, den |-> 1]

\* wfmap[wfmap>1] = 1: the comparison is made on the data, also under the
\* mask, and the assignment stores 1 and clears the mask bit.
clamp(c) == IF ~c.d.nan /\ c.d.x > 1 THEN Cell(Flt(1), FALSE) ELSE c

\* inverted_wfmap = 1 - wfmap, as data: a masked element keeps the data of
\* the left operand, 1.
inverted(c) == IF c.m THEN Flt(1) ELSE IF c.d.nan THEN NaN ELSE Flt(1 - c.d.x)

\* np.nan_to_num: NaN becomes 0.
nan_to_num(f) == IF f.nan THEN Flt(0) ELSE f

\* distance_transform_edt(input)[p], squared: the distance from p to the
\* nearest zero of the input; with no zero in the input scipy measures from
\* the index -1 on every axis.
distance_transform_edt_sq(nr, nc, input, p) ==
    LET zeros == {q \in Index(nr, nc) : input[q].x = 0}
        sq(q) == (p[1] - q[1]) * (p[1] - q[1]) + (p[2] - q[2]) * (p[2] - q[2])
    IN  IF zeros = {} THEN (p[1] + 1) * (p[1] + 1) + (p[2] + 1) * (p[2] + 1)
        ELSE CHOOSE d \in {sq(q) : q \in zeros} : \A q \in zeros : d <= sq(q)

\* The first column j of row i, by increasing j, whose distance is neither
\* masked nor NaN (a distance is never NaN: nan_to_num ran before the
\* transform); nc when the row has none.
first_valid(nc, mask, i) ==
    IF \A j \in 0..(nc - 1) : mask[<<i, j>>] THEN nc
    ELSE CHOOSE j \in 0..(nc - 1) : ~mask[<<i, j>>] /\ \A k \in 0..(j - 1) : mask[<<i, k>>]

\* _wall_field_rect(wfmap): what it returns or raises, the argument after
\* the in-place clamp (wfmap), and adjacent_sites as it stands at the end
\* (sq: the squared distance, m: the mask bit).
wall_field_rect(a) ==
    LET N        == a.nr
        wfmap    == [a EXCEPT !.at = [p \in Index(a.nr, a.nc) |-> clamp(a.at[p])]]
        input    == [p \in Index(a.nr, a.nc) |-> nan_to_num(inverted(wfmap.at[p]))]
        dist(p)  == distance_transform_edt_sq(a.nr, a.nc, input, p)
        mask     == [p \in Index(a.nr, a.nc) |-> wfmap.at[p].m]
        site(i)  ==
            IF ~mask[<<i, 0>>] THEN [sq |-> dist(<<i, 0>>), m |-> FALSE]
            ELSE LET j == first_valid(a.nc, mask, i)
                 IN  IF j < a.nc THEN [sq |-> dist(<<i, j>>), m |-> FALSE]
                     ELSE [sq |-> dist(<<i, 0>>), m |-> TRUE]
        adjacent == [i \in 0..(N - 1) |-> site(i)]
        covered  == Cardinality({i \in 0..(N - 1) : ~adjacent[i].m /\ adjacent[i].sq = 0})
        contributing_cells == N - Cardinality({i \in 0..(N - 1) : adjacent[i].m})
    IN  IF a.nc = 0
        THEN [outcome |-> Raise("IndexError", "distance[:,0]"), wfmap |-> wfmap, adjacent_sites |-> <<>>]
        ELSE [outcome |-> Return(IF contributing_cells = 0 THEN MaskedCoverage
                                 ELSE Coverage(covered, contributing_cells)),
              wfmap |-> wfmap,
              adjacent_sites |-> [distance |-> [p \in Index(a.nr, a.nc) |-> dist(p)],
                                  sites |-> adjacent]]

\* _wall_field_circ(wfmap)
wall_field_circ(a) == Raise("NotImplementedError", "_wall_field_circ")

(***************************************************************************)
(* borderCoverage.py: border_coverage                                      *)
(***************************************************************************)
\* opexebo.defaults, as the docstring of border_coverage states them.
default_search_width == 8

default_walls == PyStr(<<"T", "R", "B", "L">>)

default_shape == "rectangular"

shapes_square == {"square", "rectangle", "rectangular", "rect", "s", "r"}

shapes_circle == {"circ", "circular", "circle", "c"}

shapes_linear == {"linear", "line", "l"}

\* str.lower() on the arena shapes of the model.
shape_lower(shape) ==
    CASE shape = "Square" -> "square"
      [] shape = "CIRCLE" -> "circle"
      [] shape = "Linear" -> "linear"
      [] OTHER -> shape

\* kwargs.get(key, default)
kwargs_get(given, value, default) == IF given THEN value ELSE default

\* DO_A_THING(): the name is bound nowhere in the module nor in builtins.
DO_A_THING == Raise("NameError", "name 'DO_A_THING' is not defined")

\* The dispatch on the arena shape.
arena_dispatch(shape) ==
    IF shape_lower(shape) \in shapes_square THEN DO_A_THING
    ELSE IF shape_lower(shape) \in shapes_circle THEN DO_A_THING
    ELSE IF shape_lower(shape) \in shapes_linear THEN DO_A_THING
    ELSE Raise("NotImplementedError", "Arena shape not implemented")

\* The strip of each wall, as handed to _wall_field_rect.
wall_l(fmap, sw) == np_copy(first_cols(fmap, sw))

wall_r(fmap, sw) == fliplr(np_copy(last_cols(fmap, sw)))

wall_b(fmap, sw) == rot90(np_copy(first_rows(fmap, sw)))

wall_t(fmap, sw) == fliplr(rot90(np_copy(last_rows(fmap, sw))))

\* c > coverage; a comparison with the masked constant is masked, and falsy.
coverage_gt(c, coverage) ==
    ~c.masked /\ ~coverage.masked /\ c.num * coverage.den > coverage.num * c.den

in_walls(c, walls) == \E i \in 1..Len(walls) : walls[i] = c

\* c = _wall_field_rect(aux_map); if c > coverage: coverage = c, on the
\* loop's state st = [heap, coverage, exc] for field number k, with r what
\* the call of _wall_field_rect gave.
wall_result(st, k, r) ==
    IF r.outcome.kind = "raise"
    THEN [st EXCEPT !.heap[k] = write_back(st.heap[k], r.wfmap), !.exc = r.outcome]
    ELSE [st EXCEPT !.heap[k] = write_back(st.heap[k], r.wfmap),
                    !.coverage = IF coverage_gt(r.outcome.value, st.coverage)
                                 THEN r.outcome.value ELSE st.coverage]

\* The four "if <wall> in walls:" blocks of the loop body.
block_l(st, k, walls, sw) ==
    IF st.exc.kind = "raise" \/ ~in_walls("l", walls) THEN st
    ELSE wall_result(st, k, wall_field_rect(wall_l(field_map(st.heap[k]), sw)))

block_r(st, k, walls, sw) ==
    IF st.exc.kind = "raise" \/ ~in_walls("r", walls) THEN st
    ELSE wall_result(st, k, wall_field_rect(wall_r(field_map(st.heap[k]), sw)))

block_b(st, k, walls, sw) ==
    IF st.exc.kind = "raise" \/ ~in_walls("b", walls) THEN st
    ELSE wall_result(st, k, wall_field_rect(wall_b(field_map(st.heap[k]), sw)))

block_t(st, k, walls, sw) ==
    IF st.exc.kind = "raise" \/ ~in_walls("t", walls) THEN st
    ELSE wall_result(st, k, wall_field_rect(wall_t(field_map(st.heap[k]), sw)))

\* The body of "for field in fields:" for field number k.
field_body(st, k, walls, sw) ==
    block_t(block_b(block_r(block_l(st, k, walls, sw), k, walls, sw), k, walls, sw), k, walls, sw)

RECURSIVE field_loop(_, _, _, _)
field_loop(st, k, walls, sw) ==
    IF k > Len(st.heap) \/ st.exc.kind = "raise" THEN st
    ELSE field_loop(field_body(st, k, walls, sw), k + 1, walls, sw)

\* Variant of border_coverage: the labels above 1 are clamped in the field
\* maps themselves on entry, not in the copied strips.
border_coverage_clamps_fields(fields_type, fields, kwargs) ==
    [outcome |-> arena_dispatch(kwargs_get(kwargs.has_shape, kwargs.shape, default_shape)),
     heap |-> [k \in 1..Len(fields) |->
                 [fields[k] EXCEPT !.at = [p \in DOMAIN fields[k].at |-> clamp(fields[k].at[p])]]]]

\* return coverage, or the exception that left the loop.
loop_outcome(st) ==
    IF st.exc.kind = "raise" THEN [outcome |-> st.exc, heap |-> st.heap]
    ELSE [outcome |-> Return(st.coverage), heap |-> st.heap]

\* border_coverage(fields, **kwargs), with fields the caller's field maps in
\* order and fields_type the type of the container: what the call returns
\* or raises, and the caller's field maps after it.
border_coverage(fields_type, fields, kwargs) ==
    LET sw       == kwargs_get(kwargs.has_sw, kwargs.sw, default_search_width)
        walls    == kwargs_get(kwargs.has_walls, kwargs.walls, default_walls)
        shape    == kwargs_get(kwargs.has_shape, kwargs.shape, default_shape)
    IN  IF arena_dispatch(shape).kind = "raise"
        THEN [outcome |-> arena_dispatch(shape), heap |-> fields]
        ELSE IF validate_wall_definition(walls).kind = "raise"
        THEN [outcome |-> validate_wall_definition(walls), heap |-> fields]
        ELSE IF fields_type \notin {"dict", "list", "tuple", "ndarray"}
        THEN [outcome |-> Raise("ValueError", "fields"), heap |-> fields]
        ELSE loop_outcome(field_loop([heap |-> fields, coverage |-> Coverage(0, 1), exc |-> NoOutcome],
                                     1, lower(walls.val), sw))

(***************************************************************************)
(* Bounds                                                                  *)
(***************************************************************************)
MaxWallLen == 5

MaxDim == 12

MaxRows == 2

MaxCols == 2

MaxMarked == 2

MaxFields == 2

MaxFieldMarks == 1

\* The elements of the arrays of the model: data 0, 1, a label 2 or NaN,
\* unmasked, and data 0 or 1 under the mask.
PlainCell == Cell(Flt(0), FALSE)

MarkedCells ==
    {Cell(Flt(1), FALSE), Cell(Flt(2), FALSE), Cell(NaN, FALSE), Cell(Flt(0), TRUE), Cell(Flt(1), TRUE)}

\* The marked elements of the field maps handed to border_coverage.
FieldCells == {Cell(Flt(1), FALSE), Cell(Flt(2), FALSE), Cell(Flt(0), TRUE)}

PlainMap(nr, nc) == [nr |-> nr, nc |-> nc, at |-> [p \in Index(nr, nc) |-> PlainCell]]

\* The nr x nc maps with at most k elements other than an unmasked 0.
RECURSIVE MarkedMaps(_, _, _)
MarkedMaps(nr, nc, k) ==
    IF k = 0 THEN {PlainMap(nr, nc)}
    ELSE LET fewer == MarkedMaps(nr, nc, k - 1)
         IN  fewer \cup {[m EXCEPT !.at[p] = c] : m \in fewer, p \in Index(nr, nc), c \in MarkedCells}

WallMaps(maxr, maxc, k) == UNION {MarkedMaps(nr, nc, k) : nr \in 1..maxr, nc \in 1..maxc}

\* The lists of n field maps of one shape with at most k marked elements
\* in all.
RECURSIVE FieldLists(_, _, _, _)
FieldLists(n, nr, nc, k) ==
    IF k = 0 THEN {[i \in 1..n |-> PlainMap(nr, nc)]}
    ELSE LET fewer == FieldLists(n, nr, nc, k - 1)
         IN  fewer \cup {[f EXCEPT ![i].at[p] = c] :
                            f \in fewer, i \in 1..n, p \in Index(nr, nc), c \in FieldCells}

FieldArguments(maxn, maxr, maxc, k) ==
    UNION {{[type |-> "list", maps |-> f] : f \in FieldLists(n, nr, nc, k)} :
              n \in 0..maxn, nr \in 1..maxr, nc \in 1..maxc}
    \cup UNION {{[type |-> "dict", maps |-> f] : f \in FieldLists(1, nr, nc, k)} :
              nr \in 1..maxr, nc \in 1..maxc}
    \cup {[type |-> "int", maps |-> <<>>]}

ShapeArguments == {"square", "Square", "circle", "linear", "hexagon"}

BorderWallArguments ==
    {PyStr(<<"l">>), PyStr(<<"r">>), PyStr(<<"T", "b">>), PyStr(<<"x">>)}

SearchWidths == {0, 1, 2}

KwargsArguments ==
    {[has_shape |-> hs, shape |-> sh, has_walls |-> hw, walls |-> w, has_sw |-> hsw, sw |-> sw] :
        hs \in {TRUE}, sh \in ShapeArguments, hw \in {TRUE}, w \in BorderWallArguments,
        hsw \in {TRUE}, sw \in SearchWidths}
    \cup {[has_shape |-> FALSE, shape |-> default_shape, has_walls |-> FALSE, walls |-> default_walls,
           has_sw |-> FALSE, sw |-> default_search_width]}
    \cup {[has_shape |-> FALSE, shape |-> default_shape, has_walls |-> TRUE, walls |-> w,
           has_sw |-> TRUE, sw |-> sw] : w \in BorderWallArguments, sw \in SearchWidths}

WallAlphabet == {"t", "r", "b", "l", "T", "L", "x"}

RECURSIVE StringsUpTo(_)
StringsUpTo(n) ==
    IF n = 0 THEN {<<>>}
    ELSE LET shorter == StringsUpTo(n - 1)
         IN  shorter \cup {Append(s, c) : s \in {t \in shorter : Len(t) = n - 1}, c \in WallAlphabet}

WallArguments(n) == {PyStr(s) : s \in StringsUpTo(n)} \cup {PyNone, PyInt, PyList(<<"t">>)}

(***************************************************************************)
(* Calls of _validate_wall_definition                                      *)
(***************************************************************************)
InitValidate ==
    /\ pc = "ready"
    /\ call \in {[fn |-> "_validate_wall_definition", walls |-> w] : w \in WallArguments(MaxWallLen)}
    /\ heap = <<>>
    /\ outcome = NoOutcome

ValidateWallDefinition ==
    /\ pc = "ready"
    /\ call.fn = "_validate_wall_definition"
    /\ outcome' = validate_wall_definition(call.walls)
    /\ pc' = "done"
    /\ UNCHANGED <<call, heap>>

SpecValidate == InitValidate /\ [][ValidateWallDefinition]_vars

(***************************************************************************)
(* Calls of autocorrelation                                                *)
(***************************************************************************)
InitAutocorr ==
    /\ pc = "ready"
    /\ call \in {[fn |-> "autocorrelation", shape |-> <<n, m>>] : n \in 1..MaxDim, m \in 1..MaxDim}
    /\ heap = <<>>
    /\ outcome = NoOutcome

Autocorrelation ==
    /\ pc = "ready"
    /\ call.fn = "autocorrelation"
    /\ outcome' = autocorrelation(call.shape)
    /\ pc' = "done"
    /\ UNCHANGED <<call, heap>>

SpecAutocorr == InitAutocorr /\ [][Autocorrelation]_vars

(***************************************************************************)
(* Calls of _wall_field_rect on an array the caller owns                   *)
(***************************************************************************)
InitWall ==
    /\ pc = "ready"
    /\ heap \in {<<m>> : m \in WallMaps(MaxRows, MaxCols, MaxMarked)}
    /\ call = [fn |-> "_wall_field_rect", before |-> heap, locals |-> <<>>]
    /\ outcome = NoOutcome

WallFieldRect ==
    /\ pc = "ready"
    /\ call.fn = "_wall_field_rect"
    /\ LET r == wall_field_rect(field_map(heap[1]))
       IN  /\ outcome' = r.outcome
           /\ heap' = <<write_back(heap[1], r.wfmap)>>
           /\ call' = [call EXCEPT !.locals = r.adjacent_sites]
    /\ pc' = "done"

SpecWall == InitWall /\ [][WallFieldRect]_vars

(***************************************************************************)
(* Calls of border_coverage on field maps the caller owns                  *)
(***************************************************************************)
NoKwargs ==
    [has_shape |-> FALSE, shape |-> default_shape, has_walls |-> FALSE, walls |-> default_walls,
     has_sw |-> FALSE, sw |-> default_search_width]

InitBorder ==
    /\ pc = "ready"
    /\ \E f \in FieldArguments(MaxFields, MaxRows, MaxCols, MaxFieldMarks) :
          /\ heap = f.maps
          /\ call = [fn |-> "border_coverage", fields |-> f.type, before |-> f.maps, kwargs |-> NoKwargs]
    /\ outcome = NoOutcome

BorderCoverage ==
    /\ pc = "ready"
    /\ call.fn = "border_coverage"
    /\ \E kw \in KwargsArguments :
          LET r == border_coverage(call.fields, heap, kw)
          IN  /\ outcome' = r.outcome
              /\ heap' = r.heap
              /\ call' = [call EXCEPT !.kwargs = kw]
    /\ pc' = "done"

SpecBorder == InitBorder /\ [][BorderCoverage]_vars

(***************************************************************************)
(* C1                                                                      *)
(***************************************************************************)
ValidWallSpecifier(w) ==
    /\ w.type = "str"
    /\ Len(w.val) \in 1..4
    /\ \A i \in 1..Len(w.val) : w.val[i] \in {"t", "r", "b", "l", "T", "R", "B", "L"}

\* C1: _validate_wall_definition returns normally exactly for a string of
\* length 1 to 4 over t, r, b, l in either case, and raises ValueError for
\* every other argument.
C1_ValidateIff ==
    pc = "done" =>
        IF ValidWallSpecifier(call.walls)
        THEN outcome.kind = "return"
        ELSE outcome.kind = "raise" /\ outcome.exc = "ValueError"

C1_Witness ==
    /\ pc = "done"
    /\ call.walls.type = "str"
    /\ Len(call.walls.val) = 4
    /\ call.walls.val[1] = "T" /\ call.walls.val[2] = "T"
    /\ outcome.kind = "return"

(***************************************************************************)
(* C7, C10                                                                 *)
(***************************************************************************)
\* C7: on every axis the kept window has an odd number of cells, at most
\* 2N-1, is the slice [offset-1 : full-offset+1] lying symmetrically in the
\* full surface, and has the zero-lag cell N-1 as its centre cell.
C7_WindowOddCentred ==
    pc = "done" =>
        \A i \in 1..Len(call.shape) :
            LET n     == call.shape[i]
                w     == outcome.value[i]
                cells == w.cells
                size  == Cardinality(cells)
            IN  /\ size % 2 = 1
                /\ size <= 2 * n - 1
                /\ cells = {k \in 0..(2 * n - 2) : w.slice.d0 <= k /\ k < w.slice.d1}
                /\ w.slice.d0 = (2 * n - 1) - w.slice.d1
                /\ \A k \in cells : (2 * (n - 1) - k) \in cells
                /\ (n - 1) \in cells
                /\ Cardinality({k \in cells : k < n - 1}) = Cardinality({k \in cells : k > n - 1})

C7_Witness ==
    /\ pc = "done"
    /\ call.shape = <<10, 3>>
    /\ Cardinality(outcome.value[1].cells) = 17
    /\ Cardinality(outcome.value[2].cells) = 5

\* C10 as stated: for every map with more than one cell on an axis the
\* retained size round(N + 0.8 N), made odd, is strictly less than 2N-1.
C10_Original ==
    pc = "done" =>
        \A i \in 1..Len(call.shape) :
            call.shape[i] >= 2 => outcome.value[i].new_size < 2 * call.shape[i] - 1

\* C10 amended: the retained size is strictly less than 2N-1 exactly on the
\* axes with N >= 8; with 1 <= N <= 7 it equals 2N-1, the whole surface.
C10_StrictlySmallerFrom8 ==
    pc = "done" =>
        \A i \in 1..Len(call.shape) :
            LET n == call.shape[i]
            IN  /\ n >= 8 => outcome.value[i].new_size < 2 * n - 1
                /\ n <= 7 => outcome.value[i].new_size = 2 * n - 1

C10_Witness ==
    /\ pc = "done"
    /\ call.shape = <<8, 7>>
    /\ outcome.value[1].new_size = 13
    /\ outcome.value[2].new_size = 13

(***************************************************************************)
(* C2 - C6, C8: border_coverage                                            *)
(***************************************************************************)
CalledShape == kwargs_get(call.kwargs.has_shape, call.kwargs.shape, default_shape)

CalledWalls == kwargs_get(call.kwargs.has_walls, call.kwargs.walls, default_walls)

CalledSw == kwargs_get(call.kwargs.has_sw, call.kwargs.sw, default_search_width)

\* A call the documentation lets through to the rectangular evaluation.
RectangularCall ==
    /\ pc = "done"
    /\ shape_lower(CalledShape) \in shapes_square
    /\ ValidWallSpecifier(CalledWalls)
    /\ call.fields \in {"dict", "list"}
    /\ CalledSw >= 1

StripOf(w, fmap, sw) ==
    CASE w = "l" -> wall_l(field_map(fmap), sw)
      [] w = "r" -> wall_r(field_map(fmap), sw)
      [] w = "b" -> wall_b(field_map(fmap), sw)
      [] w = "t" -> wall_t(field_map(fmap), sw)

\* The coverage of every (field, requested wall) pair of the call.
PairCoverages ==
    {wall_field_rect(StripOf(w, call.before[k], CalledSw)).outcome.value :
        k \in 1..Len(call.before),
        w \in {c \in {"l", "r", "b", "t"} : in_walls(c, lower(CalledWalls.val))}}

CoverageLeq(a, b) == a.masked \/ (~b.masked /\ a.num * b.den <= b.num * a.den)

\* C2 as stated: a call with a valid wall specifier and a field or a list of
\* fields returns the maximum of the coverages of all (field, wall) pairs,
\* which is at least every single one of them.
C2_Original ==
    RectangularCall =>
        /\ outcome.kind = "return"
        /\ \A c \in PairCoverages : CoverageLeq(c, outcome.value)
        /\ \/ outcome.value \in PairCoverages
           \/ outcome.value = Coverage(0, 1)

C4_Original ==
    /\ (pc = "done" /\ shape_lower(CalledShape) \in shapes_square) =>
           outcome.exc \notin {"NameError", "NotImplementedError"}
    /\ RectangularCall => outcome.kind = "return"
    /\ (pc = "done" /\ shape_lower(CalledShape) \in shapes_linear) =>
           outcome = border_coverage(call.fields, call.before,
                                     [call.kwargs EXCEPT !.has_shape = TRUE, !.shape = "square"]).outcome

\* C5 as stated: for every list of fields, valid wall specifier and positive
\* search width the call returns a value in [0, 1].
C5_Original ==
    RectangularCall =>
        /\ outcome.kind = "return"
        /\ ~outcome.value.masked
        /\ outcome.value.den > 0
        /\ 0 <= outcome.value.num /\ outcome.value.num <= outcome.value.den

mirror_map(m) == [m EXCEPT !.at = [p \in DOMAIN m.at |-> m.at[<<p[1], m.nc - 1 - p[2]>>]]]

\* C6 as stated: for every field map M and search width, the right wall of M
\* is evaluated on the strip the left wall of the mirrored M gives, and the
\* two calls return the same coverage.
C6_Original ==
    (/\ pc = "done"
     /\ shape_lower(CalledShape) \in shapes_square
     /\ call.fields \in {"dict", "list"}
     /\ Len(call.before) = 1
     /\ CalledWalls = PyStr(<<"r">>)) =>
        LET M      == call.before[1]
            right  == wall_r(field_map(M), CalledSw)
            left   == wall_l(field_map(mirror_map(M)), CalledSw)
            other  == border_coverage(call.fields, <<mirror_map(M)>>,
                                      [call.kwargs EXCEPT !.walls = PyStr(<<"l">>)])
        IN  /\ right.nr = left.nr /\ right.nc = left.nc /\ right.at = left.at
            /\ outcome.kind = "return"
            /\ other.outcome = outcome

InvalidInput(p) == call.before[1].at[p].m \/ call.before[1].at[p].d.nan

\* C9 as stated: a wall-adjacent site that is masked or NaN takes the
\* distance of the first valid, non-NaN cell of its row and counts as
\* valid; with no such cell in the row it stays invalid.
C9_Original ==
    (pc = "done" /\ call.fn = "_wall_field_rect" /\ outcome.kind = "return") =>
        \A i \in 0..(call.before[1].nr - 1) :
            InvalidInput(<<i, 0>>) =>
                LET J == {j \in 0..(call.before[1].nc - 1) : ~InvalidInput(<<i, j>>)}
                IN  IF J = {} THEN call.locals.sites[i].m
                    ELSE LET j == CHOOSE x \in J : \A y \in J : x <= y
                         IN  /\ ~call.locals.sites[i].m
                             /\ call.locals.sites[i].sq = call.locals.distance[<<i, j>>]

====
